---- MODULE Spec2Model ----
(***************************************************************************)
(* LAN chat: the peer-communication engine (P2PEngine) and the handlers    *)
(* of MainWindow that it drives, from src/github.py.                       *)
(*                                                                         *)
(* Threads and serialisation.  receive_loop runs in its own thread and     *)
(* emits Qt signals; P2PEngine and MainWindow both live in the GUI thread, *)
(* so every slot (on_status, on_msg, on_diag_reply, on_read_ack_received), *)
(* every QTimer callback (check_timeout, show_diag_result) and every user  *)
(* command (start_diag, switch_chat) runs in the GUI thread, one at a      *)
(* time, slots in the order the signals were emitted.  msg_cache is        *)
(* touched by the receive thread alone.  A datagram's receipt and the slot *)
(* it triggers are therefore modelled as one step: the delay between the   *)
(* two is indistinguishable from a later arrival of the datagram.          *)
(*                                                                         *)
(* Python dicts are functions with a finite domain; a packet is a record   *)
(* whose optional keys (msg_id, reason, is_reply, is_group) may be absent. *)
(* The "time" stamp of a packet and the 'item'/'flash' fields of a peer    *)
(* entry are presentation only and are left out.                           *)
(*                                                                         *)
(* chat_history is append-only but for one entry per conversation: the     *)
(* entry last_out_index points at, whose html carries the status tag       *)
(* (UNREAD_SPAN, READ_SPAN or none) that later handlers rewrite.  Every    *)
(* appended entry is an output of the step (notes); last_out_index maps a  *)
(* conversation to the status tag of the entry it indexes.  The index is   *)
(* always within the list, which never shrinks.                            *)
(***************************************************************************)
EXTENDS Integers, Sequences, FiniteSets, TLC

\* ------------------------------------------------------------------ bounds
MaxMsgId == 1        \* distinct msg_id values the environment may use
MaxSend == 2         \* packets one engine sends after its start-up broadcast
MaxTime == 61        \* the clock stops here
MaxDiagTimers == 1   \* pending show_diag_result single-shot timers per window
MaxFileLen == 3      \* bytes of the longest file offered for download
CHUNK_SIZE == 2      \* bytes per chunk (16384 in the program, scaled to the file lengths)

\* ------------------------------------------------------- program constants
TIMEOUT_THRESHOLD == 30
BROADCAST_IP == "<broadcast>"
DefaultReason == "voluntary exit"
TimeoutReason == "timeout"
DIAG_TIMEOUT == "timeout"
DIAG_OK == "ok"
UNREAD_SPAN == "unread"
READ_SPAN == "read"

\* ------------------------------------------------------------- identities
Nodes == {"alice", "bob"}
Ids == Nodes \cup {"carol"}
Local == "alice"

my_uuid(n) == n
username(n) == CASE n = "alice" -> "Alice" [] n = "bob" -> "Bob" [] OTHER -> "Carol"
get_local_ip(n) == CASE n = "alice" -> "10.0.0.1" [] n = "bob" -> "10.0.0.2" [] OTHER -> "10.0.0.3"
IPs == {get_local_ip(u) : u \in Ids}

VARIABLES
    now,            \* datetime.now(), in seconds
    running,        \* [n] P2PEngine.running
    msg_cache,      \* [n] P2PEngine.msg_cache
    online_users,   \* [n] MainWindow.online_users: uuid -> [ip, name, last_seen]
    current_id,     \* [n] MainWindow.current_id
    last_out_index, \* [n] MainWindow.last_out_index: chat_id -> status tag of the indexed entry
    diag_res,       \* [n] MainWindow.diag_res: [set, res]; set = FALSE: no such attribute yet
    diag_timers,    \* [n] number of pending QTimer.singleShot(2000, show_diag_result)
    next_mid,       \* [n] number of the next uuid4 drawn by send_packet
    network,        \* datagrams handed to UDP so far (closed system only)
    last,           \* the step just taken: [node, op, pkg, src, disp, known]
    sent,           \* packets send_packet sent during that step
    notes,          \* events the step produced (chat_history entries, signals)
    err,            \* exception that ended the step's handler, or "none"
    report,         \* [shown, lines]: the dialog show_diag_result displayed
    dispatch_count, \* [n] msg_id -> how often receive_loop dispatched it
    timeout_count,  \* [n] uuid -> "timeout" reports since the last status:on from it
    pong_seen,      \* [n] uuids whose diag_pong was dispatched since the last start_diag
    serving_files,  \* FileServer.serving_files: filename -> path
    disk,           \* the serving host's files: path -> content
    fs_running,     \* FileServer.running
    server_socket,  \* FileServer.server_socket: "none", "listening" or "closed"
    run_pc,         \* position of the listener thread in FileServer.run
    stop_pc,        \* number of the next operation of closeEvent_order the GUI thread runs
    conn,           \* [c] one TCP connection: download_worker and its handle_request
    exited,         \* the serving process has exited (sys.exit after app.exec)
    udp_sock,       \* P2PEngine.udp_sock: "open" or "closed"
    recv_pc,        \* position of the receive thread in receive_loop
    hb_pc,          \* position of the heartbeat thread in heartbeat_loop
    dropped         \* receive_loop has met a datagram that is not a packet

engine == <<running, msg_cache, online_users, current_id, last_out_index, diag_res, diag_timers, next_mid>>
outputs == <<last, sent, notes, err, report>>
history == <<dispatch_count, timeout_count, pong_seen>>
fileserver == <<serving_files, disk, fs_running, server_socket, run_pc, conn>>
threads == <<stop_pc, exited, udp_sock, recv_pc, hb_pc, dropped>>
core == <<now, engine, network, outputs, history>>
vars == <<core, fileserver, threads>>

\* ---------------------------------------------------------------- dicts
EmptyDict == [k \in {} |-> 0]
Get(d, k, default) == IF k \in DOMAIN d THEN d[k] ELSE default
Put(d, k, v) == [x \in (DOMAIN d) \cup {k} |-> IF x = k THEN v ELSE d[x]]
Del(d, k) == [x \in (DOMAIN d) \ {k} |-> d[x]]

NoMid == <<>>
NoPkg == [type |-> "none"]
NoReport == [shown |-> FALSE, lines |-> {}]

\* -------------------------------------------------- the GUI thread's state
\* The fields of MainWindow (and the uuid counter of the engine) that the
\* handlers read and write, with the outputs of the handler being run.
Win(n) ==
    [online_users |-> online_users[n], current_id |-> current_id[n],
     last_out_index |-> last_out_index[n],
     diag_res |-> diag_res[n], diag_timers |-> diag_timers[n],
     next_mid |-> next_mid[n], udp_sock |-> udp_sock,
     sent |-> <<>>, notes |-> <<>>, err |-> "none", report |-> NoReport]

Store(n, w) ==
    /\ online_users' = [online_users EXCEPT ![n] = w.online_users]
    /\ current_id' = [current_id EXCEPT ![n] = w.current_id]
    /\ last_out_index' = [last_out_index EXCEPT ![n] = w.last_out_index]
    /\ diag_res' = [diag_res EXCEPT ![n] = w.diag_res]
    /\ diag_timers' = [diag_timers EXCEPT ![n] = w.diag_timers]
    /\ next_mid' = [next_mid EXCEPT ![n] = w.next_mid]
    /\ sent' = w.sent
    /\ notes' = w.notes
    /\ err' = w.err
    /\ report' = w.report

\* A handler runs while uuids are left: at most MaxSend are drawn by
\* handlers.
Commit(n, w) == w.next_mid <= MaxSend + 2 /\ Store(n, w)

\* -------------------------------------------------------------- P2PEngine
\* pkg.update({...}): the stamp overrides the caller's keys; msg_id is a
\* fresh uuid4, modelled as the pair <<sender, serial number>>.
stamp_reuses_id(w, n) ==
    [user |-> username(n), uuid |-> my_uuid(n), ip |-> get_local_ip(n),
     msg_id |-> <<n, 1>>]

stamp(w, n) ==
    [user |-> username(n), uuid |-> my_uuid(n), ip |-> get_local_ip(n),
     msg_id |-> <<n, w.next_mid>>]

\* sendto on a closed socket raises; send_packet swallows the exception and
\* returns None: the uuid is drawn and no datagram leaves.
send_packet(w, n, pkg, target_ip) ==
    IF w.udp_sock = "open"
    THEN [w EXCEPT !.sent = Append(@, [pkg |-> stamp(w, n) @@ pkg, to |-> target_ip]),
                   !.next_mid = @ + 1]
    ELSE [w EXCEPT !.next_mid = @ + 1]

\* --------------------------------------------------------------- MainWindow
\* str.replace on the html of an entry: the html holds at most one status tag.
replace(tag, old, new) == IF tag = old THEN new ELSE tag

\* The status tag is removed from the entry last_out_index[chat_id] points
\* at; an own entry becomes the indexed one, an entry of the peer leaves the
\* conversation without an indexed entry.
add_to_history(w, chat_id, entry, is_mine) ==
    IF is_mine
    THEN [w EXCEPT !.last_out_index = Put(@, chat_id, entry.tag),
                   !.notes = Append(@, entry)]
    ELSE [w EXCEPT !.last_out_index = Del(@, chat_id),
                   !.notes = Append(@, entry)]

StatusReply == [type |-> "status", action |-> "on", is_reply |-> TRUE]

\* Variants of on_status with one plausible slip each.
on_status_replies_to_reply(w, n, pkg, t) ==
    LET uid == pkg.uuid
        name == pkg.user
    IN  IF pkg.action = "on"
        THEN IF uid \in DOMAIN w.online_users
             THEN [w EXCEPT !.online_users[uid].last_seen = t,
                            !.online_users[uid].ip = pkg.ip]
             ELSE LET w1 == [w EXCEPT !.online_users =
                                 Put(@, uid, [ip |-> pkg.ip, name |-> name, last_seen |-> t])]
                      w2 == send_packet(w1, n, StatusReply, pkg.ip)
                  IN  add_to_history(w2, "All",
                          [kind |-> "online", uid |-> uid, name |-> name], FALSE)
        ELSE IF pkg.action = "off" /\ uid \in DOMAIN w.online_users
             THEN [w EXCEPT !.online_users = Del(@, uid),
                            !.last_out_index = Del(@, "All"),
                            !.notes = Append(@, [kind |-> "offline", uid |-> uid, name |-> name,
                                                 reason |-> Get(pkg, "reason", DefaultReason)])]
             ELSE w

on_status_keeps_entry(w, n, pkg, t) ==
    LET uid == pkg.uuid
        name == pkg.user
    IN  IF pkg.action = "on"
        THEN IF uid \in DOMAIN w.online_users
             THEN [w EXCEPT !.online_users[uid].last_seen = t,
                            !.online_users[uid].ip = pkg.ip]
             ELSE LET w1 == [w EXCEPT !.online_users =
                                 Put(@, uid, [ip |-> pkg.ip, name |-> name, last_seen |-> t])]
                      w2 == IF ~Get(pkg, "is_reply", FALSE)
                            THEN send_packet(w1, n, StatusReply, pkg.ip)
                            ELSE w1
                  IN  add_to_history(w2, "All",
                          [kind |-> "online", uid |-> uid, name |-> name], FALSE)
        ELSE IF pkg.action = "off" /\ uid \in DOMAIN w.online_users
             THEN [w EXCEPT !.last_out_index = Del(@, "All"),
                            !.notes = Append(@, [kind |-> "offline", uid |-> uid, name |-> name,
                                                 reason |-> Get(pkg, "reason", DefaultReason)])]
             ELSE w

on_status_drops_reason(w, n, pkg, t) ==
    LET uid == pkg.uuid
        name == pkg.user
    IN  IF pkg.action = "on"
        THEN IF uid \in DOMAIN w.online_users
             THEN [w EXCEPT !.online_users[uid].last_seen = t,
                            !.online_users[uid].ip = pkg.ip]
             ELSE LET w1 == [w EXCEPT !.online_users =
                                 Put(@, uid, [ip |-> pkg.ip, name |-> name, last_seen |-> t])]
                      w2 == IF ~Get(pkg, "is_reply", FALSE)
                            THEN send_packet(w1, n, StatusReply, pkg.ip)
                            ELSE w1
                  IN  add_to_history(w2, "All",
                          [kind |-> "online", uid |-> uid, name |-> name], FALSE)
        ELSE IF pkg.action = "off" /\ uid \in DOMAIN w.online_users
             THEN [w EXCEPT !.online_users = Del(@, uid),
                            !.last_out_index = Del(@, "All"),
                            !.notes = Append(@, [kind |-> "offline", uid |-> uid, name |-> name,
                                                 reason |-> DefaultReason])]
             ELSE w

on_status_stale_ip(w, n, pkg, t) ==
    LET uid == pkg.uuid
        name == pkg.user
    IN  IF pkg.action = "on"
        THEN IF uid \in DOMAIN w.online_users
             THEN [w EXCEPT !.online_users[uid].last_seen = t]
             ELSE LET w1 == [w EXCEPT !.online_users =
                                 Put(@, uid, [ip |-> pkg.ip, name |-> name, last_seen |-> t])]
                      w2 == IF ~Get(pkg, "is_reply", FALSE)
                            THEN send_packet(w1, n, StatusReply, pkg.ip)
                            ELSE w1
                  IN  add_to_history(w2, "All",
                          [kind |-> "online", uid |-> uid, name |-> name], FALSE)
        ELSE IF pkg.action = "off" /\ uid \in DOMAIN w.online_users
             THEN [w EXCEPT !.online_users = Del(@, uid),
                            !.last_out_index = Del(@, "All"),
                            !.notes = Append(@, [kind |-> "offline", uid |-> uid, name |-> name,
                                                 reason |-> Get(pkg, "reason", DefaultReason)])]
             ELSE w

on_status(w, n, pkg, t) ==
    LET uid == pkg.uuid
        name == pkg.user
    IN  IF pkg.action = "on"
        THEN IF uid \in DOMAIN w.online_users
             THEN [w EXCEPT !.online_users[uid].last_seen = t,
                            !.online_users[uid].ip = pkg.ip]
             ELSE LET w1 == [w EXCEPT !.online_users =
                                 Put(@, uid, [ip |-> pkg.ip, name |-> name, last_seen |-> t])]
                      w2 == IF ~Get(pkg, "is_reply", FALSE)
                            THEN send_packet(w1, n, StatusReply, pkg.ip)
                            ELSE w1
                  IN  add_to_history(w2, "All",
                          [kind |-> "online", uid |-> uid, name |-> name], FALSE)
        ELSE IF pkg.action = "off" /\ uid \in DOMAIN w.online_users
             THEN [w EXCEPT !.online_users = Del(@, uid),
                            !.last_out_index = Del(@, "All"),
                            !.notes = Append(@, [kind |-> "offline", uid |-> uid, name |-> name,
                                                 reason |-> Get(pkg, "reason", DefaultReason)])]
             ELSE w

\* The download thread on_msg starts for an image is download_worker.
on_msg(w, n, pkg, t) ==
    LET uid == pkg.uuid
        is_all == Get(pkg, "is_group", TRUE)
        dest == IF is_all THEN "All" ELSE uid
        w1 == IF uid \in DOMAIN w.online_users
              THEN [w EXCEPT !.online_users[uid].last_seen = t]
              ELSE w
        w2 == IF ~is_all /\ w.current_id = uid
              THEN send_packet(w1, n, [type |-> "read_ack"], pkg.ip)
              ELSE w1
        w3 == IF ~is_all THEN [w2 EXCEPT !.last_out_index = Del(@, uid)] ELSE w2
    IN  add_to_history(w3, dest, [kind |-> "message", uid |-> uid, is_group |-> is_all], FALSE)

on_diag_reply(w, pkg) ==
    IF ~w.diag_res.set
    THEN [w EXCEPT !.err = "AttributeError"]
    ELSE IF pkg.uuid \in DOMAIN w.diag_res.res
         THEN [w EXCEPT !.diag_res.res[pkg.uuid] = DIAG_OK]
         ELSE w

on_read_ack_toggles(w, pkg) ==
    LET sender_uuid == pkg.uuid
    IN  IF sender_uuid \in DOMAIN w.last_out_index
        THEN [w EXCEPT !.last_out_index[sender_uuid] =
                 IF @ = READ_SPAN THEN UNREAD_SPAN ELSE replace(@, UNREAD_SPAN, READ_SPAN)]
        ELSE w

on_read_ack_received(w, pkg) ==
    LET sender_uuid == pkg.uuid
    IN  IF sender_uuid \in DOMAIN w.last_out_index
        THEN [w EXCEPT !.last_out_index[sender_uuid] = replace(@, UNREAD_SPAN, READ_SPAN)]
        ELSE w

\* Sequences that list every element of S once: the orders in which a dict
\* with the keys S may be iterated.
Orders(S) ==
    {o \in [1..Cardinality(S) -> S] : \A i, j \in 1..Cardinality(S) : o[i] = o[j] => i = j}

dead_users_at_threshold(w, t) ==
    {uid \in DOMAIN w.online_users : t - w.online_users[uid].last_seen >= TIMEOUT_THRESHOLD}

dead_users(w, t) ==
    {uid \in DOMAIN w.online_users : t - w.online_users[uid].last_seen > TIMEOUT_THRESHOLD}

TimeoutPkg(w, uid) ==
    [uuid |-> uid, user |-> w.online_users[uid].name, action |-> "off", reason |-> TimeoutReason]

RECURSIVE sweep(_, _, _, _)
sweep(w, n, dead, t) ==
    IF dead = <<>> THEN w
    ELSE sweep(on_status(w, n, TimeoutPkg(w, Head(dead)), t), n, Tail(dead), t)

check_timeout(w, n, order, t) == sweep(w, n, order, t)

RECURSIVE ping_all(_, _, _)
ping_all(w, n, order) ==
    IF order = <<>> THEN w
    ELSE LET uid == Head(order)
             w1 == [w EXCEPT !.diag_res.res = Put(@, uid, DIAG_TIMEOUT)]
         IN  ping_all(send_packet(w1, n, [type |-> "diag_ping"], w.online_users[uid].ip),
                      n, Tail(order))

start_diag(w, n, order) ==
    LET w1 == [w EXCEPT !.diag_res = [set |-> TRUE, res |-> EmptyDict]]
        w2 == ping_all(w1, n, order)
    IN  [w2 EXCEPT !.diag_timers = @ + 1]

\* The list comprehension reads online_users[u]['name'] for every key of
\* diag_res: a key that left online_users raises KeyError and no dialog is shown.
show_diag_result(w) ==
    LET w1 == [w EXCEPT !.diag_timers = @ - 1]
    IN  IF \E u \in DOMAIN w.diag_res.res : u \notin DOMAIN w.online_users
        THEN [w1 EXCEPT !.err = "KeyError"]
        ELSE [w1 EXCEPT !.report =
                 [shown |-> TRUE,
                  lines |-> {[uid |-> u, name |-> w.online_users[u].name,
                              status |-> w.diag_res.res[u]] : u \in DOMAIN w.diag_res.res}]]

switch_chat(w, n, item) ==
    LET w1 == [w EXCEPT !.current_id = item]
    IN  IF item # "All" /\ item \in DOMAIN w.online_users
        THEN send_packet(w1, n, [type |-> "read_ack"], w.online_users[item].ip)
        ELSE w1

\* txt is the stripped, non-empty content of the input box.  The target of
\* a direct message is online_users[current_id]['ip']: KeyError when the
\* peer of the active conversation is no longer listed.
send_text(w, n, txt) ==
    LET is_all == w.current_id = "All"
        status == IF is_all THEN "" ELSE UNREAD_SPAN
    IN  IF ~is_all /\ w.current_id \notin DOMAIN w.online_users
        THEN [w EXCEPT !.err = "KeyError"]
        ELSE LET target_ip == IF is_all THEN BROADCAST_IP ELSE w.online_users[w.current_id].ip
                 w1 == send_packet(w, n, [type |-> "text", content |-> txt, is_group |-> is_all],
                                   target_ip)
             IN  add_to_history(w1, w.current_id,
                     [kind |-> "mine", chat |-> w.current_id, tag |-> status], TRUE)

\* ----------------------------------------------------------- receive_loop
is_self_unfiltered(n, pkg) == FALSE
is_self(n, pkg) == pkg.uuid = my_uuid(n)
is_duplicate(cache, mid) == mid # NoMid /\ mid \in cache
cache_add_forgets(cache, mid) == cache
cache_add(cache, mid) == IF mid # NoMid THEN cache \cup {mid} ELSE cache

dispatch(w, n, pkg, src, t) ==
    LET ty == Get(pkg, "type", "none")
    IN  CASE ty = "status" -> on_status(w, n, pkg, t)
          [] ty \in {"text", "file"} -> on_msg(w, n, pkg, t)
          [] ty = "diag_ping" -> send_packet(w, n, [type |-> "diag_pong"], src)
          [] ty = "diag_pong" -> on_diag_reply(w, pkg)
          [] ty = "read_ack" -> on_read_ack_received(w, pkg)
          [] OTHER -> w

Bump(c, mid) == Put(c, mid, IF Get(c, mid, 0) >= 2 THEN 2 ELSE Get(c, mid, 0) + 1)

Body(pkg) == [k \in (DOMAIN pkg) \ {"msg_id"} |-> pkg[k]]

Least(a, b) == IF a <= b THEN a ELSE b

\* Bookkeeping of the step just taken (reads last' and notes').
CountTimeouts(n) ==
    /\ pong_seen' = [pong_seen EXCEPT ![n] =
           IF last'.op = "start_diag" THEN {}
           ELSE IF last'.op = "recv" /\ last'.disp = "diag_pong" THEN @ \cup {last'.pkg.uuid}
           ELSE @]
    /\ timeout_count' = [timeout_count EXCEPT ![n] =
        [uid \in Ids |->
            IF /\ last'.op = "recv" /\ last'.disp = "status"
               /\ last'.pkg.action = "on" /\ last'.pkg.uuid = uid
            THEN 0
            ELSE IF last'.op = "check_timeout"
                 THEN Least(2, @[uid] + Cardinality({i \in 1..Len(notes') :
                          /\ notes'[i].kind = "offline" /\ notes'[i].uid = uid
                          /\ notes'[i].reason = TimeoutReason}))
                 ELSE @[uid]]]

Idle(n, op) == [node |-> n, op |-> op, pkg |-> NoPkg, src |-> "", disp |-> "none", known |-> FALSE]

\* One pass of the loop body for the datagram recvfrom returned.
receive_body(n, pkg, src) ==
    /\ LET mid == Get(pkg, "msg_id", NoMid)
           drop == IF is_self(n, pkg) THEN "self"
                   ELSE IF is_duplicate(msg_cache[n], mid) THEN "dup" ELSE "no"
       IN  /\ msg_cache' = [msg_cache EXCEPT ![n] = IF drop = "no" THEN cache_add(@, mid) ELSE @]
           /\ Commit(n, IF drop = "no" THEN dispatch(Win(n), n, pkg, src, now) ELSE Win(n))
           /\ dispatch_count' = [dispatch_count EXCEPT ![n] =
                                    IF drop = "no" /\ mid # NoMid THEN Bump(@, mid) ELSE @]
           /\ last' = [node |-> n, op |-> "recv", pkg |-> Body(pkg), src |-> src,
                       disp |-> IF drop = "no" THEN Get(pkg, "type", "none") ELSE drop,
                       known |-> pkg.uuid \in DOMAIN online_users[n]]
    /\ CountTimeouts(n)
    /\ UNCHANGED <<now, running>>

\* while self.running: and one pass of the body.
receive_loop(n, pkg, src) == running[n] /\ receive_body(n, pkg, src)

\* ------------------------------------------------------ GUI-thread steps
Gui(n, w, op) ==
    /\ running[n]
    /\ Commit(n, w)
    /\ last' = Idle(n, op)
    /\ CountTimeouts(n)
    /\ UNCHANGED <<now, running, msg_cache, dispatch_count>>

Do_check_timeout(n) ==
    \E order \in Orders(dead_users(Win(n), now)) :
        Gui(n, check_timeout(Win(n), n, order, now), "check_timeout")

Do_start_diag(n) ==
    /\ diag_timers[n] < MaxDiagTimers
    /\ \E order \in Orders(DOMAIN online_users[n]) :
           Gui(n, start_diag(Win(n), n, order), "start_diag")

Do_show_diag_result(n) ==
    /\ diag_timers[n] > 0
    /\ Gui(n, show_diag_result(Win(n)), "show_diag_result")

\* The user clicks an item of user_list: "All" or a listed peer.
Do_switch_chat(n) ==
    \E item \in {"All"} \cup DOMAIN online_users[n] :
        Gui(n, switch_chat(Win(n), n, item), "switch_chat")

\* The user presses Return in the input box.
Do_send_text(n) == Gui(n, send_text(Win(n), n, "hi"), "send_text")

heartbeat_loop(n) ==
    Gui(n, send_packet(Win(n), n, [type |-> "status", action |-> "on"], BROADCAST_IP), "heartbeat")

\* closeEvent: the off packet, then engine.shutdown().
closeEvent(n) ==
    /\ running[n]
    /\ Commit(n, send_packet(Win(n), n,
                 [type |-> "status", action |-> "off", reason |-> DefaultReason], BROADCAST_IP))
    /\ running' = [running EXCEPT ![n] = FALSE]
    /\ last' = Idle(n, "closeEvent")
    /\ UNCHANGED <<now, msg_cache, history>>

\* ------------------------------------------------------------------ time
\* The clock is read against the 30 s threshold only, so it advances in
\* steps that land on either side of it.  The 2 s grace window of a
\* diagnostic sweep is short against these steps: the clock stands still
\* while a single-shot timer is pending.
LongSteps == {TIMEOUT_THRESHOLD, TIMEOUT_THRESHOLD + 1}

Tick(d) ==
    /\ now + d <= MaxTime
    /\ \A n \in Nodes : diag_timers[n] = 0
    /\ now' = now + d
    /\ last' = Idle("clock", "tick")
    /\ sent' = <<>> /\ notes' = <<>> /\ err' = "none" /\ report' = NoReport
    /\ UNCHANGED <<engine, network, history>>

\* ------------------------------------------ the engine's start-up state
\* MainWindow.__init__ has broadcast its first status:on (uuid number 1).
InitEngine ==
    /\ now = 0
    /\ running = [n \in Nodes |-> TRUE]
    /\ msg_cache = [n \in Nodes |-> {}]
    /\ online_users = [n \in Nodes |-> EmptyDict]
    /\ current_id = [n \in Nodes |-> "All"]
    /\ last_out_index = [n \in Nodes |-> EmptyDict]
    /\ diag_res = [n \in Nodes |-> [set |-> FALSE, res |-> EmptyDict]]
    /\ diag_timers = [n \in Nodes |-> 0]
    /\ next_mid = [n \in Nodes |-> 2]
    /\ last = Idle("none", "init")
    /\ sent = <<>> /\ notes = <<>> /\ err = "none" /\ report = NoReport
    /\ dispatch_count = [n \in Nodes |-> EmptyDict]
    /\ timeout_count = [n \in Nodes |-> [uid \in Ids |-> 0]]
    /\ pong_seen = [n \in Nodes |-> {}]

\* The host of the engine after P2PEngine.__init__: the file server's thread
\* is started and has not run yet, nothing is offered for download, the UDP
\* socket is bound and the receive and heartbeat threads are at the top of
\* their loops.
NoConn ==
    [cpc |-> "idle", spc |-> "none", name |-> "", link |-> "none", up |-> "", hreq |-> "",
     src |-> <<>>, off |-> 0, down |-> <<>>, written |-> <<>>, created |-> FALSE,
     sfin |-> "open", cfin |-> FALSE, emitted |-> FALSE, hit |-> FALSE, herr |-> FALSE]

Conns == {"c1"}

InitHost ==
    /\ serving_files = EmptyDict
    /\ disk = EmptyDict
    /\ fs_running = TRUE
    /\ server_socket = "none"
    /\ run_pc = "start"
    /\ stop_pc = 1
    /\ dropped = FALSE
    /\ conn = [c \in Conns |-> NoConn]
    /\ exited = FALSE
    /\ udp_sock = "open"
    /\ recv_pc = "loop"
    /\ hb_pc = "loop"

\* --------------------------------- one engine, arbitrary inbound traffic
\* Datagrams hosts of the LAN may send to the engine of Local: bob sends
\* every kind of packet, with a msg_id or without one, and status:on also
\* from a second address; carol sends presence and text; and the engine's
\* own broadcasts and forgeries of its uuid come back to it.
RoamIp == "10.0.0.9"
MsgIds == {<<"net", k>> : k \in 1..MaxMsgId}
Header(u, i) == [uuid |-> u, user |-> username(u), ip |-> i]
OnBodies ==
    {[type |-> "status", action |-> "on"],
     [type |-> "status", action |-> "on", is_reply |-> TRUE]}
OffBodies ==
    {[type |-> "status", action |-> "off"],
     [type |-> "status", action |-> "off", reason |-> "crash"]}
MsgBodies ==
    {[type |-> "text", content |-> "hi", is_group |-> FALSE],
     [type |-> "file", filename |-> "a.png", is_group |-> TRUE]}
DiagBodies == {[type |-> "diag_ping"], [type |-> "diag_pong"]}
AckBodies == {[type |-> "read_ack"]}
Stamped(pkts) == {[msg_id |-> m] @@ pkg : m \in MsgIds, pkg \in pkts}
From(u, i, bodies) == {Header(u, i) @@ b : b \in bodies}
Traffic ==
    LET bob == From("bob", get_local_ip("bob"),
                    OnBodies \cup OffBodies \cup MsgBodies \cup DiagBodies \cup AckBodies)
    IN  bob \cup Stamped(bob)
        \cup From("bob", RoamIp, OnBodies)
        \cup From("carol", get_local_ip("carol"),
                  {[type |-> "status", action |-> "on", is_reply |-> TRUE],
                   [type |-> "status", action |-> "off"],
                   [type |-> "text", content |-> "hi", is_group |-> TRUE]})
        \cup Stamped(From(Local, get_local_ip(Local),
                  {[type |-> "status", action |-> "on"],
                   [type |-> "text", content |-> "hi", is_group |-> TRUE],
                   [type |-> "diag_ping"]}))
Sources(pkg) == IF pkg.type = "diag_ping" THEN {pkg.ip, RoamIp} ELSE {pkg.ip}

Receive == \E pkg \in Traffic : \E src \in Sources(pkg) : receive_loop(Local, pkg, src)
CheckTimeout == Do_check_timeout(Local)
StartDiag == Do_start_diag(Local)
ShowDiagResult == Do_show_diag_result(Local)
SwitchChat == Do_switch_chat(Local)
Heartbeat == heartbeat_loop(Local)
Clock == \E d \in LongSteps : Tick(d)

Init == InitEngine /\ network = {} /\ InitHost

Next ==
    \/ Receive /\ UNCHANGED <<network, fileserver, threads>>
    \/ CheckTimeout /\ UNCHANGED <<network, fileserver, threads>>
    \/ Heartbeat /\ UNCHANGED <<network, fileserver, threads>>
    \/ Clock /\ UNCHANGED <<fileserver, threads>>

Spec == Init /\ [][Next]_vars

\* ------------------- one engine running diagnostic sweeps, inbound traffic
\* Presence and diagnostic datagrams of the peers bob and carol.
DiagTraffic ==
    LET status == {[type |-> "status", action |-> "on", is_reply |-> TRUE],
                   [type |-> "status", action |-> "off", reason |-> DefaultReason]}
    IN  From("bob", get_local_ip("bob"), status)
        \cup From("carol", get_local_ip("carol"), status)
        \cup Stamped(From("bob", get_local_ip("bob"), DiagBodies))
        \cup Stamped(From("carol", get_local_ip("carol"), DiagBodies))

ReceiveDiag ==
    \E pkg \in DiagTraffic : \E src \in Sources(pkg) : receive_loop(Local, pkg, src)

NextDiag ==
    \/ ReceiveDiag /\ UNCHANGED <<network, fileserver, threads>>
    \/ CheckTimeout /\ UNCHANGED <<network, fileserver, threads>>
    \/ StartDiag /\ UNCHANGED <<network, fileserver, threads>>
    \/ ShowDiagResult /\ UNCHANGED <<network, fileserver, threads>>
    \/ Clock /\ UNCHANGED <<fileserver, threads>>

SpecDiag == Init /\ [][NextDiag]_vars

\* ------------------------------- two engines on one LAN, no other sender
\* network holds every datagram handed to UDP so far: one may be delivered
\* never, once or several times, in any order.  A broadcast reaches every
\* host, its sender included.  The handshake takes no account of time: the
\* clock stands still.
StartupPkg(n) ==
    [user |-> username(n), uuid |-> my_uuid(n), ip |-> get_local_ip(n),
     msg_id |-> <<n, 1>>, type |-> "status", action |-> "on"]

Wire(n, pkts) ==
    {[pkg |-> pkts[i].pkg, to |-> pkts[i].to, src |-> get_local_ip(n)] : i \in 1..Len(pkts)}

Transmit(n) == network' = network \cup Wire(n, sent')

NetReceive(n) ==
    \E d \in network :
        /\ d.to \in {BROADCAST_IP, get_local_ip(n)}
        /\ receive_loop(n, d.pkg, d.src)
        /\ Transmit(n)
NetHeartbeat(n) == heartbeat_loop(n) /\ Transmit(n)
NetClose(n) == closeEvent(n) /\ Transmit(n)

InitNet ==
    /\ InitEngine
    /\ InitHost
    /\ network = {[pkg |-> StartupPkg(n), to |-> BROADCAST_IP, src |-> get_local_ip(n)] : n \in Nodes}

NextNet ==
    \/ (\E n \in Nodes : NetReceive(n)) /\ UNCHANGED <<fileserver, threads>>
    \/ (\E n \in Nodes : NetHeartbeat(n)) /\ UNCHANGED <<fileserver, threads>>
    \/ (\E n \in Nodes : NetClose(n)) /\ UNCHANGED <<fileserver, threads>>

SpecNet == InitNet /\ [][NextNet]_vars

\* ------------------------- two engines on one LAN exchanging direct text
\* The users of both engines switch conversations and send text; datagrams
\* are lost, duplicated and reordered as above.
NetSwitchChat(n) == Do_switch_chat(n) /\ Transmit(n)
NetSendText(n) == Do_send_text(n) /\ Transmit(n)

NextChat ==
    \/ (\E n \in Nodes : NetReceive(n)) /\ UNCHANGED <<fileserver, threads>>
    \/ (\E n \in Nodes : NetSwitchChat(n)) /\ UNCHANGED <<fileserver, threads>>
    \/ (\E n \in Nodes : NetSendText(n)) /\ UNCHANGED <<fileserver, threads>>

\* The state after the discovery handshake: bob has received alice's
\* start-up broadcast (uuid number 1 of alice) and answered it (a uuid of
\* bob, numbered 0), alice has received the answer, and none of these
\* datagrams is in flight any more.
InitChat ==
    /\ now = 0
    /\ running = [n \in Nodes |-> TRUE]
    /\ msg_cache = [n \in Nodes |-> IF n = "alice" THEN {<<"bob", 0>>} ELSE {<<"alice", 1>>}]
    /\ online_users = [n \in Nodes |->
           LET m == IF n = "alice" THEN "bob" ELSE "alice"
           IN  Put(EmptyDict, my_uuid(m),
                   [ip |-> get_local_ip(m), name |-> username(m), last_seen |-> 0])]
    /\ current_id = [n \in Nodes |-> "All"]
    /\ last_out_index = [n \in Nodes |-> EmptyDict]
    /\ diag_res = [n \in Nodes |-> [set |-> FALSE, res |-> EmptyDict]]
    /\ diag_timers = [n \in Nodes |-> 0]
    /\ next_mid = [n \in Nodes |-> 2]
    /\ last = Idle("none", "init")
    /\ sent = <<>> /\ notes = <<>> /\ err = "none" /\ report = NoReport
    /\ dispatch_count = [n \in Nodes |->
           IF n = "alice" THEN Put(EmptyDict, <<"bob", 0>>, 1)
           ELSE Put(EmptyDict, <<"alice", 1>>, 1)]
    /\ timeout_count = [n \in Nodes |-> [uid \in Ids |-> 0]]
    /\ pong_seen = [n \in Nodes |-> {}]
    /\ network = {}
    /\ InitHost

SpecChat == InitChat /\ [][NextChat]_vars

\* ------------------------------------- file server and download client
\* One serving host (FileServer of the engine of Local) and the
\* download_worker threads of its peers, one thread of handle_request per
\* accepted connection.  A file's content is the sequence of its bytes;
\* byte i of a source file has the value i, so that a dropped, repeated or
\* misplaced chunk shows in the copy.  A TCP connection is a pair of byte
\* streams: up carries the request, down the file.  recv(k) returns any
\* non-empty prefix of at most k bytes of what has arrived, b'' once the
\* peer has closed and everything was read, and raises when the connection
\* was reset or (download_worker, 10 s) nothing arrives in time.
FileNames == {"a.png", "b.png"}
PathOf(fn) == <<"home", fn>>
Bytes(len) == [i \in 1..len |-> i]
Min(a, b) == IF a <= b THEN a ELSE b

SetConn(c, r) == conn' = [conn EXCEPT ![c] = r]
Quiet == UNCHANGED <<core, threads>>

\* The user offers a file: send_file_dialog enters it into serving_files,
\* sends the file packet and adds the own entry to the active conversation.
send_file_dialog(w, n, fn) ==
    LET is_all == w.current_id = "All"
        status == IF is_all THEN "" ELSE UNREAD_SPAN
    IN  IF ~is_all /\ w.current_id \notin DOMAIN w.online_users
        THEN [w EXCEPT !.err = "KeyError"]
        ELSE LET ip == IF is_all THEN BROADCAST_IP ELSE w.online_users[w.current_id].ip
                 w1 == send_packet(w, n, [type |-> "file", filename |-> fn, is_group |-> is_all],
                                   ip)
             IN  add_to_history(w1, w.current_id,
                     [kind |-> "mine", chat |-> w.current_id, tag |-> status], TRUE)

Do_send_file_dialog(n, fn, len) ==
    /\ Gui(n, send_file_dialog(Win(n), n, fn), "send_file_dialog")
    /\ serving_files' = Put(serving_files, fn, PathOf(fn))
    /\ disk' = IF PathOf(fn) \in DOMAIN disk THEN disk ELSE Put(disk, PathOf(fn), Bytes(len))
    /\ UNCHANGED <<network, fs_running, server_socket, run_pc, conn, threads>>

\* The offered file is removed from the disk of the serving host.
DeleteFile(path) ==
    /\ path \in DOMAIN disk
    /\ disk' = Del(disk, path)
    /\ UNCHANGED <<serving_files, fs_running, server_socket, run_pc, conn>>
    /\ Quiet

\* FileServer.run, the listener thread.
Reset(cs) == [c \in Conns |-> IF c \in cs THEN [conn[c] EXCEPT !.sfin = "rst"] ELSE conn[c]]
Queued == {c \in Conns : conn[c].link = "queued"}

run_bind ==
    /\ run_pc = "start" /\ ~exited
    /\ \/ server_socket' = "listening" /\ run_pc' = "loop"
       \/ server_socket' = "closed" /\ run_pc' = "finished"
    /\ UNCHANGED <<serving_files, disk, fs_running, conn>>
    /\ Quiet

run_loop ==
    /\ run_pc = "loop" /\ ~exited
    /\ IF fs_running
       THEN run_pc' = "accept" /\ UNCHANGED <<server_socket, conn>>
       ELSE run_pc' = "finished" /\ server_socket' = "closed" /\ conn' = Reset(Queued)
    /\ UNCHANGED <<serving_files, disk, fs_running>>
    /\ Quiet

run_accept(c) ==
    /\ run_pc = "accept" /\ ~exited
    /\ conn[c].link = "queued"
    /\ SetConn(c, [conn[c] EXCEPT !.link = "accepted", !.spc = "recv"])
    /\ run_pc' = "loop"
    /\ UNCHANGED <<serving_files, disk, fs_running, server_socket>>
    /\ Quiet

run_accept_timeout ==
    /\ run_pc = "accept" /\ ~exited
    /\ Queued = {}
    /\ run_pc' = "loop"
    /\ UNCHANGED <<serving_files, disk, fs_running, server_socket, conn>>
    /\ Quiet

run_accept_error ==
    /\ run_pc = "accept" /\ ~exited
    /\ run_pc' = "finished" /\ server_socket' = "closed" /\ conn' = Reset(Queued)
    /\ UNCHANGED <<serving_files, disk, fs_running>>
    /\ Quiet

\* FileServer.handle_request, one thread per accepted connection.
Handler(c, r) ==
    /\ ~exited
    /\ SetConn(c, r)
    /\ UNCHANGED <<serving_files, disk, fs_running, server_socket, run_pc>>
    /\ Quiet

hr_recv(c) ==
    /\ conn[c].spc = "recv"
    /\ \/ conn[c].up # "" /\ Handler(c, [conn[c] EXCEPT !.hreq = conn[c].up, !.spc = "lookup"])
       \/ conn[c].up = "" /\ conn[c].cfin
            /\ Handler(c, [conn[c] EXCEPT !.hreq = "", !.spc = "lookup"])

hr_lookup(c) ==
    /\ conn[c].spc = "lookup"
    /\ LET req == conn[c].hreq
       IN  IF req \in DOMAIN serving_files /\ serving_files[req] \in DOMAIN disk
           THEN Handler(c, [conn[c] EXCEPT !.spc = "open"])
           ELSE Handler(c, [conn[c] EXCEPT !.spc = "close"])

hr_open(c) ==
    /\ conn[c].spc = "open"
    /\ LET path == serving_files[conn[c].hreq]
       IN  IF path \in DOMAIN disk
           THEN Handler(c, [conn[c] EXCEPT !.src = disk[path], !.off = 0, !.hit = TRUE,
                                          !.spc = "stream"])
           ELSE Handler(c, [conn[c] EXCEPT !.herr = TRUE, !.spc = "close"])

stream_skips_last(r, chunk_size) ==
    LET chunk == SubSeq(r.src, r.off + 1, Min(r.off + chunk_size, Len(r.src)))
    IN  IF Len(chunk) < chunk_size THEN [r EXCEPT !.spc = "close"]
        ELSE IF r.cfin THEN [r EXCEPT !.herr = TRUE, !.spc = "close"]
        ELSE [r EXCEPT !.down = @ \o chunk, !.off = @ + Len(chunk)]

\* while chunk := f.read(CHUNK_SIZE): client.sendall(chunk)
stream(r, chunk_size) ==
    LET chunk == SubSeq(r.src, r.off + 1, Min(r.off + chunk_size, Len(r.src)))
    IN  IF chunk = <<>> THEN [r EXCEPT !.spc = "close"]
        ELSE IF r.cfin THEN [r EXCEPT !.herr = TRUE, !.spc = "close"]
        ELSE [r EXCEPT !.down = @ \o chunk, !.off = @ + Len(chunk)]

hr_stream(c) ==
    /\ conn[c].spc = "stream"
    /\ Handler(c, stream(conn[c], CHUNK_SIZE))

close_leaves_open(r) == [r EXCEPT !.spc = "done"]

close(r) == [r EXCEPT !.sfin = IF @ = "open" THEN "fin" ELSE @, !.spc = "done"]

hr_close(c) ==
    /\ conn[c].spc = "close"
    /\ Handler(c, close(conn[c]))

\* P2PEngine.download_worker, a thread of the downloading peer.
Client(c, r) ==
    /\ SetConn(c, r)
    /\ UNCHANGED <<serving_files, disk, fs_running, server_socket, run_pc>>
    /\ Quiet

Failed(r) == [r EXCEPT !.cpc = "failed", !.cfin = TRUE]

dw_start(c, fn) ==
    /\ conn[c].cpc = "idle"
    /\ Client(c, [conn[c] EXCEPT !.cpc = "connect", !.name = fn])

dw_connect(c) ==
    /\ conn[c].cpc = "connect"
    /\ IF server_socket = "listening" /\ ~exited
       THEN Client(c, [conn[c] EXCEPT !.cpc = "send", !.link = "queued"])
       ELSE Client(c, Failed(conn[c]))

dw_send(c) ==
    /\ conn[c].cpc = "send"
    /\ IF conn[c].sfin = "rst"
       THEN Client(c, Failed(conn[c]))
       ELSE Client(c, [conn[c] EXCEPT !.up = conn[c].name, !.cpc = "open"])

dw_open(c) ==
    /\ conn[c].cpc = "open"
    /\ Client(c, [conn[c] EXCEPT !.written = <<>>, !.created = TRUE, !.cpc = "recv"])

recv_chunk(r, k) ==
    [r EXCEPT !.written = @ \o SubSeq(r.down, 1, k),
              !.down = SubSeq(r.down, k + 1, Len(r.down))]

dw_recv(c) ==
    /\ conn[c].cpc = "recv"
    /\ conn[c].sfin # "rst"
    /\ conn[c].down # <<>>
    /\ \E k \in 1..Min(CHUNK_SIZE, Len(conn[c].down)) : Client(c, recv_chunk(conn[c], k))

\* recv returned b'': the loop ends and sig_downloaded is emitted.
dw_eof(c) ==
    /\ conn[c].cpc = "recv"
    /\ conn[c].sfin = "fin" /\ conn[c].down = <<>>
    /\ Client(c, [conn[c] EXCEPT !.cpc = "done", !.cfin = TRUE, !.emitted = TRUE])

\* recv raised: connection reset, or nothing arrived within the timeout.
dw_error(c) ==
    /\ conn[c].cpc = "recv"
    /\ \/ conn[c].sfin = "rst"
       \/ conn[c].sfin = "open" /\ conn[c].down = <<>>
    /\ Client(c, Failed(conn[c]))

\* closeEvent and, inlined, P2PEngine.shutdown and FileServer.stop: the
\* operations of the GUI thread in program order.  Other threads run
\* between any two of them.
closeEvent_closes_first ==
    <<"clear_running", "close_udp", "send_off", "stop_file_server", "wait_file_server">>

closeEvent_order ==
    <<"send_off", "clear_running", "close_udp", "stop_file_server", "wait_file_server">>

AtClose(op) ==
    /\ ~exited
    /\ stop_pc \in DOMAIN closeEvent_order
    /\ closeEvent_order[stop_pc] = op
    /\ stop_pc' = stop_pc + 1
Returned == stop_pc = Len(closeEvent_order) + 1

ce_send_off(n) ==
    /\ AtClose("send_off")
    /\ Store(n, send_packet(Win(n), n,
                 [type |-> "status", action |-> "off", reason |-> DefaultReason], BROADCAST_IP))
    /\ last' = Idle(n, "closeEvent")
    /\ Transmit(n)
    /\ UNCHANGED <<now, running, msg_cache, history, fileserver, exited, udp_sock, recv_pc, hb_pc, dropped>>

sd_clear_running(n) ==
    /\ AtClose("clear_running")
    /\ running' = [running EXCEPT ![n] = FALSE]
    /\ UNCHANGED <<now, msg_cache, online_users, current_id, last_out_index, diag_res,
                   diag_timers, next_mid, network, outputs, history, fileserver, exited,
                   udp_sock, recv_pc, hb_pc, dropped>>

sd_close_udp ==
    /\ AtClose("close_udp")
    /\ udp_sock' = "closed"
    /\ UNCHANGED <<core, fileserver, exited, recv_pc, hb_pc, dropped>>

fs_stop ==
    /\ AtClose("stop_file_server")
    /\ fs_running' = FALSE
    /\ UNCHANGED <<core, serving_files, disk, server_socket, run_pc, conn, exited, udp_sock,
                   recv_pc, hb_pc, dropped>>

fs_wait_returns_at_once ==
    /\ AtClose("wait_file_server")
    /\ UNCHANGED <<core, fileserver, exited, udp_sock, recv_pc, hb_pc, dropped>>

\* QThread.wait() returns once run() has returned.
fs_wait ==
    /\ AtClose("wait_file_server")
    /\ run_pc = "finished"
    /\ UNCHANGED <<core, fileserver, exited, udp_sock, recv_pc, hb_pc, dropped>>

\* closeEvent has accepted the event: the window closes, app.exec() returns
\* and sys.exit ends the process.  The receive, heartbeat and handler
\* threads are daemon threads and end with it wherever they are; the system
\* closes the handlers' sockets: what was sent is still delivered and
\* followed by the end of the stream, or the connection is reset.
Killed(pc) == IF pc = "stopped" THEN pc ELSE "killed"

Alive == {c \in Conns : conn[c].link = "accepted" /\ conn[c].spc # "done"}

process_exit ==
    /\ Returned /\ ~exited
    /\ exited' = TRUE
    /\ recv_pc' = Killed(recv_pc)
    /\ hb_pc' = Killed(hb_pc)
    /\ UNCHANGED dropped
    /\ \E rst \in SUBSET Alive :
           conn' = [c \in Conns |->
                      IF c \in Alive
                      THEN [conn[c] EXCEPT !.spc = "killed",
                                           !.sfin = IF c \in rst THEN "rst" ELSE "fin"]
                      ELSE conn[c]]
    /\ UNCHANGED <<core, serving_files, disk, fs_running, server_socket, run_pc, stop_pc,
                   udp_sock>>

\* ------------------------------------------------- the engine's threads
\* receive_loop.  recv_pc is "loop" at the while test, "recvfrom" before
\* the call and "blocked" inside it.  A datagram is decoded, filtered and
\* dispatched in one step.
Malformed == {"not_utf8", "not_json", "not_object", "no_uuid"}

\* What the try block raises for a datagram that is not a packet:
\* bytes.decode, json.loads, and pkg['uuid'] on a value that is not a dict
\* or on a dict without the key.
raised(kind) ==
    CASE kind = "not_utf8" -> "UnicodeDecodeError"
      [] kind = "not_json" -> "JSONDecodeError"
      [] kind = "not_object" -> "TypeError"
      [] OTHER -> "KeyError"

\* The except clauses: where the loop goes after the exception.
except_clause_breaks(exc, is_running) ==
    IF exc \in {"socket.error", "JSONDecodeError"} THEN "stopped" ELSE "loop"

except_clause(exc, is_running) ==
    IF exc \in {"socket.error", "JSONDecodeError"}
    THEN IF ~is_running THEN "stopped" ELSE "loop"
    ELSE "loop"

Fails(n, exc) ==
    /\ recv_pc' = except_clause(exc, running[n])
    /\ dropped' = (dropped \/ exc # "socket.error")
    /\ last' = Idle(n, "recv_error")
    /\ sent' = <<>> /\ notes' = <<>> /\ report' = NoReport
    /\ err' = exc
    /\ UNCHANGED <<now, engine, network, history, fileserver, stop_pc, exited, udp_sock, hb_pc>>

rl_test(n) ==
    /\ recv_pc = "loop" /\ ~exited
    /\ recv_pc' = IF running[n] THEN "recvfrom" ELSE "stopped"
    /\ UNCHANGED <<core, fileserver, stop_pc, exited, udp_sock, hb_pc, dropped>>

\* recvfrom on a socket that is already closed raises at once.
rl_call(n) ==
    /\ recv_pc = "recvfrom" /\ ~exited
    /\ IF udp_sock = "closed"
       THEN Fails(n, "socket.error")
       ELSE /\ recv_pc' = "blocked"
            /\ UNCHANGED <<core, fileserver, stop_pc, exited, udp_sock, hb_pc, dropped>>

\* A datagram arrives.  Where close() leaves a call that is already
\* blocked alone, that call still returns the next datagram.
rl_datagram(n, pkg, src) ==
    /\ recv_pc = "blocked" /\ ~exited
    /\ receive_body(n, pkg, src)
    /\ Transmit(n)
    /\ recv_pc' = "loop"
    /\ UNCHANGED <<fileserver, stop_pc, exited, udp_sock, hb_pc, dropped>>

rl_malformed(n, kind) ==
    /\ recv_pc = "blocked" /\ ~exited
    /\ Fails(n, raised(kind))

\* recvfrom fails on the open socket (a reset reported for an earlier
\* sendto, an interrupted call).
rl_error(n) ==
    /\ recv_pc = "blocked" /\ ~exited
    /\ udp_sock = "open"
    /\ Fails(n, "socket.error")

\* close() by the GUI thread while the call is blocked.  Whether the call
\* then fails depends on the platform: it may stay blocked.
rl_wake(n) ==
    /\ recv_pc = "blocked" /\ ~exited
    /\ udp_sock = "closed"
    /\ Fails(n, "socket.error")

\* heartbeat_loop: the while test, send_packet, time.sleep.
hb_test(n) ==
    /\ hb_pc = "loop" /\ ~exited
    /\ running[n] => next_mid[n] <= MaxSend + 1
    /\ hb_pc' = IF running[n] THEN "send" ELSE "stopped"
    /\ UNCHANGED <<core, fileserver, stop_pc, exited, udp_sock, recv_pc, dropped>>

hb_send(n) ==
    /\ hb_pc = "send" /\ ~exited
    /\ Store(n, send_packet(Win(n), n, [type |-> "status", action |-> "on"], BROADCAST_IP))
    /\ last' = Idle(n, "heartbeat")
    /\ Transmit(n)
    /\ hb_pc' = "sleep"
    /\ UNCHANGED <<now, running, msg_cache, history, fileserver, stop_pc, exited, udp_sock,
                   recv_pc, dropped>>

hb_wake ==
    /\ hb_pc = "sleep" /\ ~exited
    /\ hb_pc' = "loop"
    /\ UNCHANGED <<core, fileserver, stop_pc, exited, udp_sock, recv_pc, dropped>>

OfferFile == \E len \in 0..MaxFileLen : Do_send_file_dialog(Local, "a.png", len)
Listener == run_bind \/ run_loop \/ run_accept_timeout \/ run_accept_error
Accept == \E c \in Conns : run_accept(c)
HandleRequest == \E c \in Conns : hr_recv(c) \/ hr_lookup(c) \/ hr_open(c) \/ hr_stream(c) \/ hr_close(c)
Download ==
    \E c \in Conns :
        \/ \E fn \in FileNames : dw_start(c, fn)
        \/ dw_connect(c) \/ dw_send(c) \/ dw_open(c) \/ dw_recv(c) \/ dw_eof(c) \/ dw_error(c)
Remove == \E path \in DOMAIN disk : DeleteFile(path)
CloseWindow ==
    \/ ce_send_off(Local)
    \/ sd_clear_running(Local)
    \/ sd_close_udp
    \/ fs_stop
    \/ fs_wait
Exit == process_exit

NextFile ==
    \/ OfferFile
    \/ Remove
    \/ Listener
    \/ Accept
    \/ HandleRequest
    \/ Download
    \/ CloseWindow
    \/ Exit

SpecFile == Init /\ [][NextFile]_vars

\* The listener thread and the GUI thread, once it has begun to close the
\* window, take the steps they can take; the process exits once closeEvent
\* has returned.  Peers, handlers and the user are under no obligation.
FileScheduling ==
    /\ WF_vars(Listener \/ Accept)
    /\ WF_vars(sd_clear_running(Local) \/ sd_close_udp \/ fs_stop \/ fs_wait)
    /\ WF_vars(Exit)

SpecFileStop == SpecFile /\ FileScheduling

\* -------------------- one engine: its threads, closeEvent, process exit
\* The receive, heartbeat and listener threads of one engine, the GUI
\* thread closing the window, and datagrams of the peer bob, well-formed or
\* not.  The user may never close the window; a thread that can take a
\* step takes it in the end, but no datagram has to arrive and a blocked
\* recvfrom does not have to fail.
ThreadTraffic ==
    From("bob", get_local_ip("bob"),
         {[type |-> "status", action |-> "on", is_reply |-> TRUE, msg_id |-> <<"bob", 1>>],
          [type |-> "diag_ping", msg_id |-> <<"bob", 2>>]})

ReceiveThread ==
    \/ rl_test(Local)
    \/ rl_call(Local)
    \/ \E pkg \in ThreadTraffic : rl_datagram(Local, pkg, pkg.ip)
    \/ \E kind \in Malformed : rl_malformed(Local, kind)
    \/ rl_error(Local)
    \/ rl_wake(Local)
HeartbeatThread == hb_test(Local) \/ hb_send(Local) \/ hb_wake

NextShutdown ==
    \/ ReceiveThread
    \/ HeartbeatThread
    \/ Listener
    \/ CloseWindow
    \/ Exit

InitShutdown ==
    /\ InitEngine
    /\ InitHost
    /\ network = {[pkg |-> StartupPkg(Local), to |-> BROADCAST_IP, src |-> get_local_ip(Local)]}

Scheduling ==
    /\ WF_vars(rl_test(Local) \/ rl_call(Local))
    /\ WF_vars(HeartbeatThread)
    /\ WF_vars(Listener)
    /\ WF_vars(sd_clear_running(Local) \/ sd_close_udp \/ fs_stop \/ fs_wait)
    /\ WF_vars(Exit)

SpecShutdown == InitShutdown /\ [][NextShutdown]_vars /\ Scheduling

\* ------------------ one engine, its user and the presence of a peer
\* The user clicks items of user_list and sends text while status packets
\* of the peer bob arrive, the clock advances and sweeps run.
ActiveTraffic ==
    From("bob", get_local_ip("bob"),
         {[type |-> "status", action |-> "on"],
          [type |-> "status", action |-> "off"],
          [type |-> "text", content |-> "hi", is_group |-> FALSE]})

ReceiveActive == \E pkg \in ActiveTraffic : receive_loop(Local, pkg, pkg.ip)
SendText == Do_send_text(Local)

NextActive ==
    \/ ReceiveActive /\ UNCHANGED <<network, fileserver, threads>>
    \/ SwitchChat /\ UNCHANGED <<network, fileserver, threads>>
    \/ SendText /\ UNCHANGED <<network, fileserver, threads>>
    \/ CheckTimeout /\ UNCHANGED <<network, fileserver, threads>>
    \/ Clock /\ UNCHANGED <<fileserver, threads>>

SpecActive == Init /\ [][NextActive]_vars

\* ================================================================ claims
RecvStatus(action) ==
    /\ last'.op = "recv"
    /\ last'.disp = "status"
    /\ last'.pkg.action = action

NotesAbout(seq, kind, uid) == {i \in 1..Len(seq) : seq[i].kind = kind /\ seq[i].uid = uid}

\* C1: a msg_id is dispatched to a handler at most once by an engine, and a
\* dispatched msg_id stays in that engine's dedup cache.
C1_DispatchAtMostOnce ==
    \A n \in Nodes : \A mid \in DOMAIN dispatch_count[n] :
        dispatch_count[n][mid] <= 1 /\ mid \in msg_cache[n]

\* A datagram whose msg_id was dispatched before has just been dropped.
C1_Witness ==
    /\ last.op = "recv" /\ last.disp = "dup"
    /\ \E mid \in DOMAIN dispatch_count[last.node] : dispatch_count[last.node][mid] = 1

\* C2: a received packet whose uuid is the engine's own is dropped: nothing
\* is dispatched, no state of the engine or window changes, nothing is sent
\* and no event is produced, whatever the packet's type.
C2_SelfFiltered ==
    [][(last'.op = "recv" /\ last'.pkg.uuid = my_uuid(last'.node))
        => /\ last'.disp = "self"
           /\ UNCHANGED <<engine, history>>
           /\ sent' = <<>> /\ notes' = <<>> /\ err' = "none"]_vars

\* The engine's own status broadcast came back to it and was dropped.
C2_Witness ==
    /\ last.op = "recv" /\ last.disp = "self"
    /\ last.pkg.uuid = my_uuid(last.node) /\ last.pkg.type = "status"

\* C3: status:on from an id that is not in online_users creates its entry,
\* produces exactly one peer-online entry, and sends exactly one unicast
\* status:on with is_reply to the packet's ip iff the packet is no reply.
C3_PresenceTransition ==
    [][(RecvStatus("on") /\ last'.pkg.uuid \notin DOMAIN online_users[last'.node])
        => LET n == last'.node
               pkg == last'.pkg
           IN  /\ online_users'[n] = Put(online_users[n], pkg.uuid,
                      [ip |-> pkg.ip, name |-> pkg.user, last_seen |-> now])
               /\ notes' = <<[kind |-> "online", uid |-> pkg.uuid, name |-> pkg.user]>>
               /\ IF Get(pkg, "is_reply", FALSE)
                  THEN sent' = <<>>
                  ELSE /\ Len(sent') = 1
                       /\ sent'[1].to = pkg.ip
                       /\ Body(sent'[1].pkg) = [user |-> username(n), uuid |-> my_uuid(n),
                              ip |-> get_local_ip(n)] @@ StatusReply]_vars

\* An unseen peer's broadcast was answered with the unicast reply.
C3_Witness ==
    /\ last.op = "recv" /\ last.disp = "status" /\ last.pkg.action = "on"
    /\ ~last.known /\ "is_reply" \notin DOMAIN last.pkg
    /\ Len(sent) = 1 /\ sent[1].to = last.pkg.ip /\ sent[1].pkg.is_reply
    /\ Len(notes) = 1 /\ notes[1].kind = "online"

\* C4: a sweep reports as offline with reason "timeout", once each, exactly
\* the peers whose last_seen is more than the threshold old and removes
\* them; a peer is reported at most once until a status:on from it is
\* received again.
C4_TimeoutOnce ==
    [][/\ last'.op = "check_timeout" =>
            \A uid \in Ids :
                LET n == last'.node
                    dead == /\ uid \in DOMAIN online_users[n]
                            /\ now - online_users[n][uid].last_seen > TIMEOUT_THRESHOLD
                    offs == NotesAbout(notes', "offline", uid)
                IN  IF dead
                    THEN /\ Cardinality(offs) = 1
                         /\ \A i \in offs : notes'[i].reason = TimeoutReason
                         /\ uid \notin DOMAIN online_users'[n]
                    ELSE offs = {}
       /\ \A n \in Nodes : \A uid \in Ids : timeout_count'[n][uid] <= 1]_vars

\* A later sweep found the peer it had reported already gone and said nothing.
C4_Witness ==
    /\ last.op = "check_timeout" /\ notes = <<>>
    /\ \E uid \in Ids : /\ timeout_count[last.node][uid] = 1
                        /\ uid \notin DOMAIN online_users[last.node]

\* C6: status:off from an id that is in online_users removes the entry and
\* produces one peer-offline entry with the packet's reason, or with the
\* default reason when the packet has none.
C6_OffRemovesPeer ==
    [][(RecvStatus("off") /\ last'.pkg.uuid \in DOMAIN online_users[last'.node])
        => LET n == last'.node
               pkg == last'.pkg
           IN  /\ online_users'[n] = Del(online_users[n], pkg.uuid)
               /\ notes' = <<[kind |-> "offline", uid |-> pkg.uuid, name |-> pkg.user,
                              reason |-> IF "reason" \in DOMAIN pkg THEN pkg.reason
                                         ELSE DefaultReason]>>
               /\ sent' = <<>>]_vars

\* An off packet without a reason took a known peer offline.
C6_Witness ==
    /\ last.op = "recv" /\ last.disp = "status" /\ last.pkg.action = "off"
    /\ last.known /\ "reason" \notin DOMAIN last.pkg
    /\ last.pkg.uuid \notin DOMAIN online_users[last.node]
    /\ Len(notes) = 1 /\ notes[1].reason = DefaultReason

\* C7: status:on from an id that is in online_users sets that entry's
\* last_seen and ip and changes nothing else: no other entry, no event, no
\* reply (whether or not the packet is a reply).
C7_KnownPeerRefresh ==
    [][(RecvStatus("on") /\ last'.pkg.uuid \in DOMAIN online_users[last'.node])
        => LET n == last'.node
               pkg == last'.pkg
           IN  /\ online_users'[n] = [online_users[n] EXCEPT ![pkg.uuid] =
                      [ip |-> pkg.ip, name |-> @.name, last_seen |-> now]]
               /\ notes' = <<>> /\ sent' = <<>>
               /\ UNCHANGED <<running, current_id, diag_res, diag_timers, next_mid>>]_vars

\* A known peer's broadcast from a new address, later, while another peer is listed.
C7_Witness ==
    /\ last.op = "recv" /\ last.disp = "status" /\ last.pkg.action = "on"
    /\ last.known /\ "is_reply" \notin DOMAIN last.pkg
    /\ last.pkg.ip = RoamIp /\ now > 0
    /\ online_users[last.node][last.pkg.uuid].ip = RoamIp
    /\ online_users[last.node][last.pkg.uuid].last_seen = now
    /\ Cardinality(DOMAIN online_users[last.node]) = 2
    /\ sent = <<>> /\ notes = <<>>

\* C8: every dispatched packet from an id that is (and stays) in
\* online_users sets that entry's last_seen to the time of receipt.
C8_EveryPacketRefreshes ==
    [][(/\ last'.op = "recv"
        /\ last'.disp \in {"status", "text", "file", "diag_ping", "diag_pong", "read_ack"}
        /\ last'.pkg.uuid \in DOMAIN online_users[last'.node]
        /\ last'.pkg.uuid \in DOMAIN online_users'[last'.node])
        => online_users'[last'.node][last'.pkg.uuid].last_seen = now]_vars

Replies(n, m) ==
    {d \in network : /\ d.pkg.uuid = my_uuid(n) /\ d.pkg.type = "status"
                     /\ Get(d.pkg, "is_reply", FALSE) /\ d.to = get_local_ip(m)}
Announcements(m) ==
    {d \in network : /\ d.pkg.uuid = my_uuid(m) /\ d.pkg.type = "status"
                     /\ d.pkg.action = "on" /\ ~Get(d.pkg, "is_reply", FALSE)}

\* C5: between two engines, a status:on that is no reply, received from an
\* unseen peer, adds the peer and is answered by exactly one unicast
\* status:on marked is_reply; a status:on marked is_reply adds or refreshes
\* the peer and is answered by nothing; an engine has sent a peer no more
\* replies than that peer has sent announcements.
C5_Handshake ==
    [][/\ (RecvStatus("on") /\ Get(last'.pkg, "is_reply", FALSE))
            => /\ sent' = <<>>
               /\ network' = network
               /\ last'.pkg.uuid \in DOMAIN online_users'[last'.node]
       /\ (/\ RecvStatus("on") /\ ~Get(last'.pkg, "is_reply", FALSE)
           /\ last'.pkg.uuid \notin DOMAIN online_users[last'.node])
            => /\ last'.pkg.uuid \in DOMAIN online_users'[last'.node]
               /\ Len(sent') = 1
               /\ sent'[1].to = last'.pkg.ip
               /\ sent'[1].pkg.action = "on" /\ sent'[1].pkg.is_reply
               /\ network' = network \cup Wire(last'.node, sent')
       /\ \A n, m \in Nodes :
              Cardinality(Replies(n, m)') <= Cardinality(Announcements(m)')]_vars

\* alice has received bob's reply to her broadcast: both list each other,
\* bob's reply is the only one on the network and alice answered nothing.
C5_Witness ==
    /\ last.op = "recv" /\ last.node = "alice" /\ last.disp = "status"
    /\ last.pkg.uuid = "bob" /\ Get(last.pkg, "is_reply", FALSE) /\ ~last.known
    /\ "bob" \in DOMAIN online_users["alice"]
    /\ "alice" \in DOMAIN online_users["bob"]
    /\ sent = <<>>
    /\ Cardinality(Replies("bob", "alice")) = 1
    /\ Replies("alice", "bob") = {}

\* C9: a dispatched diag_ping is answered by exactly one diag_pong unicast
\* to the datagram's source; a diag_pong from a pinged peer marks it
\* reachable; and when the grace window ends the dialog lists every pinged
\* peer, as reachable if its diag_pong was dispatched in the window and as
\* "timeout" if not.
C9_DiagRoundTrip ==
    [][/\ (last'.op = "recv" /\ last'.disp = "diag_ping")
            => /\ Len(sent') = 1
               /\ sent'[1].to = last'.src
               /\ sent'[1].pkg.type = "diag_pong"
       /\ (/\ last'.op = "recv" /\ last'.disp = "diag_pong"
           /\ last'.pkg.uuid \in DOMAIN diag_res[last'.node].res)
            => diag_res'[last'.node].res[last'.pkg.uuid] = DIAG_OK
       /\ last'.op = "show_diag_result"
            => /\ report'.shown
               /\ \A u \in DOMAIN diag_res[last'.node].res :
                      \E l \in report'.lines :
                          /\ l.uid = u
                          /\ l.status = IF u \in pong_seen[last'.node]
                                        THEN DIAG_OK ELSE DIAG_TIMEOUT]_vars

\* C10: start_diag pings every peer of online_users and records "timeout"
\* for each; show_diag_result then reports a result for every one of them,
\* whatever was received or swept in between; and a diag_pong is handled
\* without error when no sweep was ever started.
C10_SweepReportsAll ==
    [][/\ last'.op = "start_diag"
            => LET n == last'.node
               IN  /\ diag_res'[n] = [set |-> TRUE,
                          res |-> [u \in DOMAIN online_users[n] |-> DIAG_TIMEOUT]]
                   /\ Len(sent') = Cardinality(DOMAIN online_users[n])
                   /\ \A u \in DOMAIN online_users[n] :
                          \E i \in 1..Len(sent') :
                              /\ sent'[i].to = online_users[n][u].ip
                              /\ sent'[i].pkg.type = "diag_ping"
       /\ last'.op = "show_diag_result"
            => /\ err' = "none"
               /\ report'.shown
               /\ {l.uid : l \in report'.lines} = DOMAIN diag_res[last'.node].res
       /\ (last'.op = "recv" /\ last'.disp = "diag_pong") => err' = "none"]_vars

RecvDispatched(type) == last'.op = "recv" /\ last'.disp = type

\* C11: a dispatched direct text whose sender's conversation is the active
\* one is answered by exactly one read_ack unicast to the packet's ip; a
\* dispatched read_ack turns the "unread" tag of the last own message of
\* the sender's conversation into "read" and changes nothing else, and it
\* changes nothing at all when that tag is already "read" or there is no
\* such message; a duplicate read_ack is dropped.
C11_ReadAckOnce ==
    [][/\ (/\ RecvDispatched("text") /\ ~Get(last'.pkg, "is_group", TRUE)
           /\ current_id[last'.node] = last'.pkg.uuid)
            => /\ Len(sent') = 1
               /\ sent'[1].pkg.type = "read_ack"
               /\ sent'[1].to = last'.pkg.ip
       /\ RecvDispatched("read_ack")
            => LET n == last'.node
                   u == last'.pkg.uuid
               IN  /\ last_out_index'[n] =
                          IF u \in DOMAIN last_out_index[n] /\ last_out_index[n][u] = UNREAD_SPAN
                          THEN [last_out_index[n] EXCEPT ![u] = READ_SPAN]
                          ELSE last_out_index[n]
                   /\ sent' = <<>> /\ notes' = <<>> /\ err' = "none"
                   /\ UNCHANGED <<running, online_users, current_id, diag_res, diag_timers,
                                  next_mid>>
       /\ (last'.op = "recv" /\ last'.disp = "dup")
            => UNCHANGED engine]_vars

\* alice's direct text to bob was acknowledged while bob had her
\* conversation open, and a further read_ack of bob has just left the
\* "read" tag of that message as it was.
C11_Witness ==
    /\ last.op = "recv" /\ last.node = "alice" /\ last.disp = "read_ack"
    /\ last.pkg.uuid = "bob"
    /\ current_id["bob"] = "alice"
    /\ Get(last_out_index["alice"], "bob", "") = READ_SPAN
    /\ \E d \in network : /\ d.pkg.type = "text" /\ d.pkg.uuid = "alice"
                           /\ d.pkg.msg_id \in msg_cache["bob"]
    /\ Cardinality({d \in network : /\ d.pkg.type = "read_ack" /\ d.pkg.uuid = "bob"
                                     /\ d.pkg.msg_id \in msg_cache["alice"]}) >= 2

Emits(c) == conn'[c].emitted /\ ~conn[c].emitted

\* C12: when the requested name is in serving_files, its file exists and
\* the handler has streamed it to the end and closed, the download that
\* reads the stream to its end has written a copy equal to the source,
\* byte for byte, whatever the file's length and however recv cuts the
\* stream.
C12_FileRoundTrip ==
    [][\A c \in Conns :
          (Emits(c) /\ conn[c].hit /\ ~conn[c].herr /\ conn[c].spc = "done")
            => /\ conn'[c].written = conn[c].src
               /\ conn[c].off = Len(conn[c].src)]_vars

\* A file of the greatest length, which ends in a partial chunk, was copied.
C12_Witness ==
    \E c \in Conns :
        /\ conn[c].emitted /\ conn[c].hit /\ conn[c].spc = "done"
        /\ Len(conn[c].src) = MaxFileLen /\ MaxFileLen % CHUNK_SIZE # 0
        /\ conn[c].written = Bytes(MaxFileLen)

\* C13: a handler that did not find the requested name in serving_files,
\* or whose file does not exist, has sent nothing; and a handler that has
\* ended, after a transfer, a miss or an error, has closed its connection.
C13_MissSilentAlwaysClosed ==
    \A c \in Conns :
        /\ ~conn[c].hit => conn[c].off = 0 /\ conn[c].down = <<>> /\ conn[c].written = <<>>
        /\ conn[c].spc = "done" => conn[c].sfin # "open"

\* The name is offered but its file is gone: nothing was sent and the
\* handler closed the connection.
C13_Witness ==
    \E c \in Conns :
        /\ conn[c].spc = "done" /\ conn[c].sfin = "fin" /\ ~conn[c].hit
        /\ conn[c].hreq \in DOMAIN serving_files
        /\ serving_files[conn[c].hreq] \notin DOMAIN disk

\* C14: download-complete is emitted only by a download that received the
\* whole file: never after a miss on the serving side, never after a
\* failure.
C14_CompleteOnlyIfReceived ==
    \A c \in Conns :
        conn[c].emitted => /\ conn[c].hit
                           /\ conn[c].written = conn[c].src
                           /\ conn[c].cpc # "failed"

\* C16: a connection whose handler is running when stop is called is not
\* cut: its handler ends by its own close, and a handler that found the
\* file and met no error has then sent all of it.
C16_ShutdownKeepsConnections ==
    \A c \in Conns :
        /\ conn[c].spc # "killed"
        /\ (conn[c].spc = "done" /\ conn[c].hit /\ ~conn[c].herr)
             => conn[c].off = Len(conn[c].src)

\* The status:off datagrams of the local engine handed to UDP so far.
OffSent ==
    {d \in network : /\ d.pkg.uuid = my_uuid(Local)
                     /\ d.pkg.type = "status"
                     /\ d.pkg.action = "off"}

\* C15: when the window is closed, the status:off packet with the reason
\* "voluntary exit" is handed to the UDP socket while that socket is still
\* open and the running flag is still set, and the socket is closed and the
\* flag cleared only after the packet has gone out.
C15_OffBeforeClose ==
    /\ [][(stop_pc' # stop_pc /\ next_mid'[Local] # next_mid[Local])
            => /\ udp_sock = "open"
               /\ running[Local]
               /\ Len(sent') = 1
               /\ sent'[1].to = BROADCAST_IP
               /\ Body(sent'[1].pkg) = Header(Local, get_local_ip(Local))
                      @@ [type |-> "status", action |-> "off", reason |-> DefaultReason]]_vars
    /\ []((udp_sock = "closed" \/ ~running[Local])
            => \E d \in OffSent : d.pkg.reason = DefaultReason /\ d.to = BROADCAST_IP)

C15_Witness == udp_sock = "closed" /\ ~running[Local] /\ OffSent # {}

\* C17: once shutdown has cleared the running flag and closed the UDP
\* socket, receive_loop leaves its loop in the end, wherever it was when
\* shutdown ran; and it never leaves the loop while the flag is set.
C17_ReceiveLoopTerminates ==
    /\ [](recv_pc = "stopped" => ~running[Local])
    /\ (~running[Local] /\ udp_sock = "closed") ~> (recv_pc = "stopped")

\* C18: FileServer.stop() terminates.  Once the running flag of the file
\* server is cleared the accept loop does not go back to accept from its
\* while test, the listener finishes with the listening socket closed, also
\* when bind failed or the loop was never entered, and stop() returns, and
\* only after the listener has finished.
C18_StopTerminates ==
    /\ [][(~fs_running /\ run_pc = "loop") => run_pc' # "accept"]_vars
    /\ [](Returned => run_pc = "finished" /\ server_socket = "closed")
    /\ [](run_pc = "finished" => server_socket = "closed")
    /\ ~fs_running ~> (run_pc = "finished" /\ Returned)

C18_Witness == Returned /\ run_pc = "finished" /\ ~fs_running /\ conn["c1"].link = "accepted"

\* The receive thread leaves recvfrom with a datagram that is not a packet.
DropsMalformed ==
    /\ recv_pc = "blocked" /\ recv_pc' # "blocked"
    /\ last'.op = "recv_error"
    /\ err' \in {raised(kind) : kind \in Malformed}

\* C19: a datagram that cannot be decoded, is not JSON, is not an object or
\* has no sender id is dropped: no event, no packet sent, the dedup cache
\* and the rest of the engine as before, and the loop of a running engine
\* goes on to receive; a well-formed packet it receives afterwards is
\* filtered, cached and dispatched by its type as ever.
C19_MalformedDropped ==
    /\ [][DropsMalformed
            => /\ notes' = <<>> /\ sent' = <<>>
               /\ network' = network
               /\ msg_cache' = msg_cache
               /\ engine' = engine /\ history' = history
               /\ running[Local] => recv_pc' = "loop"]_vars
    /\ [][(dropped /\ recv_pc = "blocked" /\ last'.op = "recv" /\ dispatch_count' # dispatch_count)
            => /\ recv_pc' = "loop"
               /\ last'.disp = last'.pkg.type
               /\ msg_cache'[Local] \ msg_cache[Local] # {}
               /\ last'.pkg.type = "status" => last'.pkg.uuid \in DOMAIN online_users'[Local]
               /\ last'.pkg.type = "diag_ping" /\ udp_sock = "open"
                     => Len(sent') = 1 /\ sent'[1].pkg.type = "diag_pong"]_vars

C19_Witness ==
    /\ dropped /\ running[Local] /\ recv_pc = "loop"
    /\ last.op = "recv" /\ last.disp = "status"
    /\ "bob" \in DOMAIN online_users[Local]

\* The status:on datagrams of the local engine handed to UDP so far, the
\* one sent at start-up included.
OnSent ==
    {d \in network : /\ d.pkg.uuid = my_uuid(Local)
                     /\ d.pkg.type = "status"
                     /\ d.pkg.action = "on"}

\* C20: heartbeat_loop never leaves its loop while the running flag is
\* set; each pass broadcasts one status:on whose msg_id differs from the
\* msg_id of every datagram this engine has sent before; while the flag is
\* set (and uuids are left) every sleep is followed by the next send; and once the
\* flag is cleared the loop stops in the end, by itself or with the process.
C20_HeartbeatKeepsBeating ==
    /\ [](hb_pc = "stopped" => ~running[Local])
    /\ [][(hb_pc = "send" /\ hb_pc' # "send" /\ udp_sock = "open")
            => /\ hb_pc' = "sleep"
               /\ Len(sent') = 1
               /\ sent'[1].to = BROADCAST_IP
               /\ Body(sent'[1].pkg) = Header(Local, get_local_ip(Local))
                      @@ [type |-> "status", action |-> "on"]
               /\ sent'[1].pkg.msg_id \notin {d.pkg.msg_id : d \in network}]_vars
    /\ (hb_pc = "sleep") ~> (hb_pc = "send" \/ ~running[Local] \/ next_mid[Local] > MaxSend + 1)
    /\ ~running[Local] ~> (hb_pc \in {"stopped", "killed"})

C20_Witness == Cardinality(OnSent) >= 3 /\ running[Local] /\ hb_pc = "sleep"

\* The online and offline entries about uid that the step just taken by
\* engine n has produced, in their order.
PresenceNotes(n, uid) ==
    LET about(e) == e.kind \in {"online", "offline"} /\ e.uid = uid
    IN  IF last'.node = n THEN SelectSeq(notes', about) ELSE <<>>

\* C21: for every remote id the online and offline entries alternate,
\* beginning with online, and the id is in online_users exactly when the
\* latest of them is online.  Stated for one step: the entries a step
\* produces about an id alternate, begin with online iff the id was not
\* listed, and the id is listed afterwards iff the last of them is online
\* (as before if there is none).  Only a dispatched status:on adds an id,
\* only a dispatched status:off or a sweep removes one.
C21_PresenceMachine ==
    [][\A n \in Nodes : \A uid \in Ids :
          LET ev == PresenceNotes(n, uid)
              was == uid \in DOMAIN online_users[n]
              is == uid \in DOMAIN online_users'[n]
          IN  /\ \A i \in 1..Len(ev) - 1 : ev[i].kind # ev[i + 1].kind
              /\ ev # <<>> => (ev[1].kind = "online" <=> ~was)
              /\ is <=> (IF ev = <<>> THEN was ELSE ev[Len(ev)].kind = "online")
              /\ (is /\ ~was) => (last'.node = n /\ RecvStatus("on") /\ last'.pkg.uuid = uid)
              /\ (was /\ ~is) => /\ last'.node = n
                                  /\ \/ RecvStatus("off") /\ last'.pkg.uuid = uid
                                     \/ last'.op = "check_timeout"]_vars

\* A peer that had been listed by its status:on was taken offline by its
\* status:off, later than the start of the clock.
C21_Witness ==
    /\ last.op = "recv" /\ last.disp = "status" /\ last.pkg.action = "off" /\ last.known
    /\ Len(notes) = 1 /\ notes[1].kind = "offline" /\ notes[1].uid = last.pkg.uuid
    /\ last.pkg.uuid \notin DOMAIN online_users[last.node]
    /\ now > 0

\* C22: a sweep removes exactly the entries whose last_seen is more than
\* TIMEOUT_THRESHOLD seconds old when it runs, each with one offline entry
\* of reason "timeout", and leaves every other entry as it was; an entry
\* refreshed no more than the threshold ago is never reported by it.
C22_SweepExact ==
    [][last'.op = "check_timeout" =>
          LET n == last'.node
              old == online_users[n]
              stale == {uid \in DOMAIN old : now - old[uid].last_seen > TIMEOUT_THRESHOLD}
          IN  /\ online_users'[n] = [uid \in (DOMAIN old) \ stale |-> old[uid]]
              /\ Len(notes') = Cardinality(stale)
              /\ \A uid \in stale :
                     \E i \in 1..Len(notes') :
                         notes'[i] = [kind |-> "offline", uid |-> uid, name |-> old[uid].name,
                                      reason |-> TimeoutReason]
              /\ \A uid \in DOMAIN old :
                     now - old[uid].last_seen <= TIMEOUT_THRESHOLD
                       => /\ uid \in DOMAIN online_users'[n]
                          /\ NotesAbout(notes', "offline", uid) = {}
              /\ sent' = <<>>]_vars

\* A sweep removed one peer and kept another whose last_seen was exactly
\* the threshold old.
C22_Witness ==
    /\ last.op = "check_timeout"
    /\ Len(notes) = 1 /\ notes[1].reason = TimeoutReason
    /\ \E uid \in DOMAIN online_users[last.node] :
           now - online_users[last.node][uid].last_seen = TIMEOUT_THRESHOLD

\* C23: once the engine has handed its status:off to UDP while the window
\* closes, it hands no further status:on to UDP, however the heartbeat
\* thread is interleaved with closeEvent and shutdown.
C23_NoOnAfterOff == [][OffSent # {} => OnSent' \subseteq OnSent]_vars

\* C24: whenever current_id is not "All" it is a key of online_users, so
\* that send_text and send_file_dialog find the target ip of the active
\* conversation.
C24_ActivePeerListed ==
    \A n \in Nodes : current_id[n] # "All" => current_id[n] \in DOMAIN online_users[n]

\* The direct texts engine a has handed to UDP so far, and the latest.
DirectSent(a) ==
    {d \in network : d.pkg.uuid = my_uuid(a) /\ d.pkg.type = "text" /\ ~d.pkg.is_group}
LatestDirect(a) ==
    {d \in DirectSent(a) : \A e \in DirectSent(a) : e.pkg.msg_id[2] <= d.pkg.msg_id[2]}

\* C25: the tag of a's last outgoing direct message to b turns from
\* "unread" to "read" only after b's engine has dispatched that message.
C25_ReadOnlyAfterReceipt ==
    [][\A a \in Nodes : \A b \in Nodes \ {a} :
          (/\ my_uuid(b) \in DOMAIN last_out_index[a]
           /\ last_out_index[a][my_uuid(b)] = UNREAD_SPAN
           /\ my_uuid(b) \in DOMAIN last_out_index'[a]
           /\ last_out_index'[a][my_uuid(b)] = READ_SPAN)
            => \E d \in LatestDirect(a) : d.pkg.msg_id \in DOMAIN dispatch_count[b]]_vars

====
